---- MODULE Spec2Model ----
(***************************************************************************)
(* Model of the ASDoQ document quality model converters:                   *)
(*   src/asdoq_md/md-to-xlsx.py        markdown_to_quality_excel           *)
(*   src/excel_to_yaml_converter.py    convert_excel_to_yaml,              *)
(*                                     convert_yaml_to_csv                 *)
(*   src/yaml_to_qualitymodel_csv.py   flatten_quality_model               *)
(*                                                                         *)
(* A Python str is modelled as a sequence of one-character strings, so     *)
(* that strip, split, join and the two regular expressions are computed    *)
(* character by character.  The Japanese keywords of the source are        *)
(* written with one ASCII letter per character:                            *)
(*   '説明' = <<"S","M">>   '例' = <<"E">>   '違反例' = <<"V","H","E">>    *)
(* None is the empty tuple; a value that may be None is held in a tuple of  *)
(* length at most one, <<v>> when it is v.                                 *)
(***************************************************************************)
EXTENDS Integers, Sequences, FiniteSets, TLC

VARIABLES
    \* ---- md-to-xlsx.py: markdown_to_quality_excel
    pc,             \* position of the run: "loop", "done"
    nread,          \* number of lines consumed by the for loop
    raw,            \* the line the loop body last ran on (None before the first)
    in_yaml, l1_body_lines, l2_body_lines, current_state, current_item, items,
    ws,             \* the data rows appended to the worksheet
    \* ---- excel_to_yaml_converter.py / yaml_to_qualitymodel_csv.py
    phase,          \* position of the conversion pipeline
    nrows,          \* number of spreadsheet rows consumed by df.iterrows()
    row,            \* the row the loop body last ran on (None before the first)
    result, current_quality_characteristic, current_sub_characteristic,
    yaml_data,      \* the tree handed to the flatteners
    csv_rows,       \* rows returned by convert_yaml_to_csv (None if it raised)
    fq_rows,        \* rows written by flatten_quality_model
    rebuilt,        \* tree rebuilt from csv_rows by the row loop
    csv_again       \* convert_yaml_to_csv of the rebuilt tree

mdvars == <<pc, nread, raw, in_yaml, l1_body_lines, l2_body_lines, current_state,
            current_item, items, ws>>
xlvars == <<phase, nrows, row, result, current_quality_characteristic,
            current_sub_characteristic, yaml_data, csv_rows, fq_rows, rebuilt,
            csv_again>>
vars == <<mdvars, xlvars>>

None == <<>>

\* ------------------------------------------------------------------ bounds
MaxLines == 4
MaxRows == 3

\* ------------------------------------------------------------ Python str
NL == "\n"
WhiteSpace == {" ", "\n", "\r", "\t"}

Last(s) == s[Len(s)]
Front(s) == SubSeq(s, 1, Len(s) - 1)

RECURSIVE lstrip(_)
lstrip(s) == IF s # <<>> /\ Head(s) \in WhiteSpace THEN lstrip(Tail(s)) ELSE s

RECURSIVE rstrip(_)
rstrip(s) == IF s # <<>> /\ Last(s) \in WhiteSpace THEN rstrip(Front(s)) ELSE s

strip(s) == rstrip(lstrip(s))

\* raw.rstrip('\n')
RECURSIVE rstrip_nl(_)
rstrip_nl(s) == IF s # <<>> /\ Last(s) = NL THEN rstrip_nl(Front(s)) ELSE s

\* "\n".join(parts)
RECURSIVE join(_)
join(parts) ==
    IF parts = <<>> THEN <<>>
    ELSE IF Len(parts) = 1 THEN parts[1]
    ELSE parts[1] \o <<NL>> \o join(Tail(parts))

\* text.split('\n')
RECURSIVE split(_)
split(s) ==
    IF \E i \in 1..Len(s) : s[i] = NL
    THEN LET i == CHOOSE k \in 1..Len(s) : s[k] = NL /\ \A j \in 1..(k - 1) : s[j] # NL
         IN  <<SubSeq(s, 1, i - 1)>> \o split(SubSeq(s, i + 1, Len(s)))
    ELSE <<s>>

startswith(s, p) == Len(s) >= Len(p) /\ SubSeq(s, 1, Len(p)) = p

\* number of leading characters of s that lie in set cs
RECURSIVE span(_, _)
span(s, cs) == IF s # <<>> /\ Head(s) \in cs THEN 1 + span(Tail(s), cs) ELSE 0

drop(s, n) == SubSeq(s, n + 1, Len(s))

\* '-' * n
RECURSIVE dashes(_)
dashes(n) == IF n = 0 THEN <<>> ELSE <<"-">> \o dashes(n - 1)

\* ======================================================================
\* src/asdoq_md/md-to-xlsx.py
\* ======================================================================
INDENT_WIDTH == 4
MaxHeaderLevel == 6

KW_DESCRIPTION == <<"S", "M">>          \* '説明'
KW_EXAMPLE == <<"E">>                   \* '例'
KW_VIOLATION == <<"V", "H", "E">>       \* '違反例'
SEPARATOR == <<"*", "*", "*">>          \* "***"
FRONTMATTER == <<"-", "-", "-">>        \* '---'

\* header_re = ^(#{1,6})\s*(.*)$
header_match(line) == span(line, {"#"}) >= 1

header_level(line) ==
    IF span(line, {"#"}) > MaxHeaderLevel THEN MaxHeaderLevel ELSE span(line, {"#"})

header_title(line) ==
    LET rest == drop(line, header_level(line))
    IN  strip(drop(rest, span(rest, WhiteSpace)))

\* list_re = ^(\s*)([-*])\s+(.*)$
list_match(line) ==
    LET after == drop(line, span(line, WhiteSpace))
    IN  /\ Len(after) >= 2
        /\ after[1] \in {"-", "*"}
        /\ after[2] \in WhiteSpace

list_indent(line) == span(line, WhiteSpace) \div INDENT_WIDTH

list_text(line) ==
    LET after == drop(line, span(line, WhiteSpace) + 1)
    IN  strip(drop(after, span(after, WhiteSpace)))

\* mutant of bullet_prefix: one dash per indentation unit
bullet_prefix_per_unit(indent) == dashes(indent) \o <<" ">>

\* prefix = '-' * (indent + 1) + ' '
bullet_prefix(indent) == dashes(indent + 1) \o <<" ">>

\* the dict literal of lines 111-118
new_item(c1, c2, title) ==
    [col1 |-> c1, col2 |-> c2, title3 |-> title,
     body3 |-> <<>>, examples |-> <<>>, violations |-> <<>>]

\* items.append(current_item) guarded by the truth value of current_item:
\* a dict with keys is true whatever its values, None is false
close_item(its, cur) == IF cur # None THEN Append(its, cur[1]) ELSE its

\* level 1 heading, lines 76-83
on_level1(st) ==
    [st EXCEPT !.items = close_item(st.items, st.current_item),
               !.current_item = None,
               !.l1_body_lines = <<>>,
               !.current_state = "l1"]

\* level 2 heading, lines 86-97
on_level2(st, title) ==
    IF title = KW_DESCRIPTION
    THEN [st EXCEPT !.l2_body_lines = <<>>, !.current_state = "l2"]
    ELSE [st EXCEPT !.current_state = "None"]

\* level 3 heading, lines 101-120
on_level3(st, title) ==
    [st EXCEPT !.items = close_item(st.items, st.current_item),
               !.current_item = <<new_item(strip(join(st.l1_body_lines)),
                                           strip(join(st.l2_body_lines)),
                                           title)>>,
               !.current_state = "body"]

\* level 4 heading with an item open, lines 123-130
on_level4(st, title) ==
    [st EXCEPT !.current_state =
        IF startswith(title, KW_EXAMPLE) THEN "example"
        ELSE IF startswith(title, KW_VIOLATION) THEN "violation"
        ELSE "None"]

\* level 5 and 6 headings inside an example or a violation block, lines 133-139
on_level5(st, title) ==
    IF st.current_state = "example"
    THEN [st EXCEPT !.current_item[1].examples = Append(@, title)]
    ELSE [st EXCEPT !.current_item[1].violations = Append(@, title)]

\* the heading branch, lines 71-142
on_header(st, level, title) ==
    IF level = 1 THEN on_level1(st)
    ELSE IF level = 2 THEN on_level2(st, title)
    ELSE IF level = 3 THEN on_level3(st, title)
    ELSE IF level = 4 /\ st.current_item # None THEN on_level4(st, title)
    ELSE IF level >= 5 /\ st.current_item # None
            /\ st.current_state \in {"example", "violation"}
         THEN on_level5(st, title)
    ELSE st

\* the bullet branch, lines 146-156 (current_item is not None here)
on_bullet(st, line) ==
    LET entry == bullet_prefix(list_indent(line)) \o list_text(line)
    IN  IF st.current_state = "body"
        THEN [st EXCEPT !.current_item[1].body3 = Append(@, entry)]
        ELSE IF st.current_state = "example"
        THEN [st EXCEPT !.current_item[1].examples = Append(@, entry)]
        ELSE IF st.current_state = "violation"
        THEN [st EXCEPT !.current_item[1].violations = Append(@, entry)]
        ELSE st

\* mutant of is_separator: the separator test is missing
is_separator_never(text) == FALSE

\* the test of line 169
is_separator(text) == text = SEPARATOR

\* mutant of on_text: col1 and col2 of the open item follow the buffers, as
\* they would if the item held the lists instead of the joined strings
on_text_live(st, line) ==
    IF st.current_state = "l1"
    THEN [st EXCEPT !.l1_body_lines = Append(@, strip(line)),
                    !.current_item =
                        IF @ = None THEN @
                        ELSE <<[@[1] EXCEPT !.col1 =
                                  strip(join(Append(st.l1_body_lines, strip(line))))]>>]
    ELSE IF st.current_state = "l2"
    THEN [st EXCEPT !.l2_body_lines = Append(@, strip(line)),
                    !.current_item =
                        IF @ = None THEN @
                        ELSE <<[@[1] EXCEPT !.col2 =
                                  strip(join(Append(st.l2_body_lines, strip(line))))]>>]
    ELSE IF st.current_item # None /\ st.current_state = "body"
    THEN [st EXCEPT !.current_item[1].body3 = Append(@, strip(line))]
    ELSE IF st.current_item # None /\ st.current_state = "example"
    THEN [st EXCEPT !.current_item[1].examples = Append(@, strip(line))]
    ELSE IF st.current_item # None /\ st.current_state = "violation"
    THEN [st EXCEPT !.current_item[1].violations = Append(@, strip(line))]
    ELSE st

\* the plain text branch, lines 159-172
on_text(st, line) ==
    IF st.current_state = "l1"
    THEN [st EXCEPT !.l1_body_lines = Append(@, strip(line))]
    ELSE IF st.current_state = "l2"
    THEN [st EXCEPT !.l2_body_lines = Append(@, strip(line))]
    ELSE IF st.current_item # None /\ st.current_state = "body"
    THEN [st EXCEPT !.current_item[1].body3 = Append(@, strip(line))]
    ELSE IF st.current_item # None /\ st.current_state = "example"
    THEN [st EXCEPT !.current_item[1].examples = Append(@, strip(line))]
    ELSE IF st.current_item # None /\ st.current_state = "violation"
    THEN IF is_separator(strip(line)) THEN st
         ELSE [st EXCEPT !.current_item[1].violations = Append(@, strip(line))]
    ELSE st

\* one turn of the for loop, lines 55-172
loop_body(st, rawline) ==
    LET line == rstrip_nl(rawline)
    IN  IF strip(line) = FRONTMATTER THEN [st EXCEPT !.in_yaml = ~@]
        ELSE IF st.in_yaml THEN st
        ELSE IF strip(line) = <<>> THEN st
        ELSE IF header_match(line)
        THEN on_header(st, header_level(line), header_title(line))
        ELSE IF list_match(line) /\ st.current_item # None THEN on_bullet(st, line)
        ELSE on_text(st, line)

\* a data row of the worksheet, lines 186-198
sheet_row(it) ==
    <<it.col1, it.col2, join(<<it.title3>> \o it.body3),
      join(it.examples), join(it.violations)>>

\* the local variables of markdown_to_quality_excel as one record
parser_state ==
    [in_yaml |-> in_yaml, l1_body_lines |-> l1_body_lines,
     l2_body_lines |-> l2_body_lines, current_state |-> current_state,
     current_item |-> current_item, items |-> items]

\* the lines a Markdown file may hold, each as read by readlines()
LineTexts ==
    { <<"#", " ", "A">>,                                   \* # A
      <<"#", "#", " ", "S", "M">>,                         \* ## 説明
      <<"#", "#", " ", "x">>,                              \* ## x
      <<"#", "#", "#", " ", "M">>,                         \* ### M
      <<"#", "#", "#">>,                                   \* ###
      <<"#", "#", "#", "#", " ", "E">>,                    \* #### 例
      <<"#", "#", "#", "#", " ", "V", "H", "E">>,          \* #### 違反例
      <<"#", "#", "#", "#", " ", "z">>,                    \* #### z
      <<"#", "#", "#", "#", "#", " ", "*", "*", "*">>,     \* ##### ***
      <<"-", " ", "b">>,                                   \* - b
      <<" ", " ", " ", " ", "-", " ", "b">>,               \* 4 spaces, - b
      <<" ", " ", " ", " ", " ", " ", " ", " ", "*", " ", "b">>, \* 8 spaces, * b
      <<"-", " ", "*", "*", "*">>,                         \* - ***
      <<"*", "*", "*">>,                                   \* ***
      <<" ", "t">>,                                        \* t, indented
      <<"-", "-", "-">>,                                   \* ---
      <<>> }                                               \* empty line
InputLines == { Append(l, NL) : l \in LineTexts }

InitMd ==
    /\ pc = "loop"
    /\ nread = 0
    /\ raw = None
    /\ in_yaml = FALSE
    /\ l1_body_lines = <<>>
    /\ l2_body_lines = <<>>
    /\ current_state = "None"
    /\ current_item = None
    /\ items = <<>>
    /\ ws = <<>>

\* the for loop takes the next line of the file
ReadLine(rawline) ==
    /\ pc = "loop"
    /\ nread < MaxLines
    /\ nread' = nread + 1
    /\ raw' = <<rawline>>
    /\ LET st == loop_body(parser_state, rawline)
       IN  /\ in_yaml' = st.in_yaml
           /\ l1_body_lines' = st.l1_body_lines
           /\ l2_body_lines' = st.l2_body_lines
           /\ current_state' = st.current_state
           /\ current_item' = st.current_item
           /\ items' = st.items
    /\ UNCHANGED <<pc, ws>>

\* end of input, lines 175-205
EndOfInput ==
    /\ pc = "loop"
    /\ pc' = "done"
    /\ items' = close_item(items, current_item)
    /\ ws' = [i \in 1..Len(items') |-> sheet_row(items'[i])]
    /\ UNCHANGED <<nread, raw, in_yaml, l1_body_lines, l2_body_lines,
                   current_state, current_item>>


\* ======================================================================
\* src/excel_to_yaml_converter.py
\* A spreadsheet row is [qc, qc_desc, sub, sub_desc, item, ex, vi], the seven
\* fixed columns.  A node of the tree is
\*   characteristic  [name, desc, subs, items]   '名称' '説明' '副特性' '測定項目'
\*   sub             [name, desc, items]         '名称' '説明' '測定項目'
\*   measurement     [item, ex, vi]              '項目' '例' '違反例'
\* A characteristic without the key '測定項目' and one whose list is empty read
\* the same through .get('測定項目', []): both have items = <<>>.
\* ======================================================================

\* text.replace('\r\n', '\n').replace('\r', '\n')
RECURSIVE unify_newlines(_)
unify_newlines(s) ==
    IF s = <<>> THEN <<>>
    ELSE IF Len(s) >= 2 /\ s[1] = "\r" /\ s[2] = "\n"
    THEN <<NL>> \o unify_newlines(drop(s, 2))
    ELSE IF s[1] = "\r" THEN <<NL>> \o unify_newlines(Tail(s))
    ELSE <<s[1]>> \o unify_newlines(Tail(s))

\* clean_text, lines 16-29 (every cell of the model is a str, never NaN)
clean_text(text) == unify_newlines(strip(text))

\* split_examples, lines 31-43
split_examples(text) ==
    IF text = <<>> THEN <<>>
    ELSE LET parts == split(text)
             keep == SelectSeq(parts, LAMBDA ex : strip(ex) # <<>>)
         IN  [i \in 1..Len(keep) |-> strip(keep[i])]

\* the test of line 80
opens_characteristic(quality_char, current) ==
    quality_char # <<>> /\ <<quality_char>> # current

\* the test of line 91
opens_sub(sub_char, current) == sub_char # <<>> /\ <<sub_char>> # current

\* mutant of attach: a characteristic that already has direct measurements
\* keeps receiving them
attach_direct_first(res, measurement_dict) ==
    IF res # <<>> /\ Last(res).items # <<>>
    THEN [res EXCEPT ![Len(res)].items = Append(@, measurement_dict)]
    ELSE IF res # <<>> /\ Last(res).subs # <<>>
    THEN [res EXCEPT ![Len(res)].subs[Len(Last(res).subs)].items =
                         Append(@, measurement_dict)]
    ELSE IF res # <<>>
    THEN [res EXCEPT ![Len(res)].items = Append(@, measurement_dict)]
    ELSE res

\* lines 103-115: where a measurement goes
attach(res, measurement_dict) ==
    IF res # <<>> /\ Last(res).subs # <<>>
    THEN [res EXCEPT ![Len(res)].subs[Len(Last(res).subs)].items =
                         Append(@, measurement_dict)]
    ELSE IF res # <<>>
    THEN [res EXCEPT ![Len(res)].items = Append(@, measurement_dict)]
    ELSE res

\* one turn of the row loop of convert_excel_to_yaml, lines 70-115, on the
\* record b = [result, current_quality_characteristic, current_sub_characteristic]
row_loop_body(b, r) ==
    LET quality_char == clean_text(r.qc)
        quality_char_desc == clean_text(r.qc_desc)
        sub_char == clean_text(r.sub)
        sub_char_desc == clean_text(r.sub_desc)
        measurement_item == clean_text(r.item)
        examples == clean_text(r.ex)
        violation_examples == clean_text(r.vi)
        newqc == opens_characteristic(quality_char, b.current_quality_characteristic)
        b1 == IF newqc
              THEN [result |-> Append(b.result,
                                      [name |-> quality_char, desc |-> quality_char_desc,
                                       subs |-> <<>>, items |-> <<>>]),
                    current_quality_characteristic |-> <<quality_char>>,
                    current_sub_characteristic |-> None]
              ELSE b
        newsub == opens_sub(sub_char, b1.current_sub_characteristic)
        sub_char_dict == [name |-> sub_char, desc |-> sub_char_desc, items |-> <<>>]
        b2 == IF newsub
              THEN [b1 EXCEPT
                      !.current_sub_characteristic = <<sub_char>>,
                      !.result = IF b1.result # <<>>
                                 THEN [b1.result EXCEPT ![Len(b1.result)].subs =
                                                            Append(@, sub_char_dict)]
                                 ELSE b1.result]
              ELSE b1
        measurement_dict == [item |-> measurement_item,
                             ex |-> split_examples(examples),
                             vi |-> split_examples(violation_examples)]
    IN  IF measurement_item # <<>>
        THEN [b2 EXCEPT !.result = attach(b2.result, measurement_dict)]
        ELSE b2

\* the whole row loop over a list of rows
RECURSIVE row_loop(_, _)
row_loop(b, rs) == IF rs = <<>> THEN b ELSE row_loop(row_loop_body(b, Head(rs)), Tail(rs))

builder_start ==
    [result |-> <<>>, current_quality_characteristic |-> None,
     current_sub_characteristic |-> None]

\* convert_excel_to_yaml applied to a list of rows: the tree it returns
convert_excel_to_yaml(rs) == row_loop(builder_start, rs).result

csv_row(qc_name, qc_desc, sub_name, sub_desc, m) ==
    [qc |-> qc_name, qc_desc |-> qc_desc, sub |-> sub_name, sub_desc |-> sub_desc,
     item |-> m.item, ex |-> join(m.ex), vi |-> join(m.vi)]

\* concatenation of a list of lists
RECURSIVE concat(_)
concat(ls) == IF ls = <<>> THEN <<>> ELSE Head(ls) \o concat(Tail(ls))

\* rows of one sub-characteristic, lines 173-189
sub_rows(qc, sub_qc) ==
    [i \in 1..Len(sub_qc.items) |->
        csv_row(qc.name, qc.desc, sub_qc.name, sub_qc.desc, sub_qc.items[i])]

\* rows of the direct measurements of a characteristic, lines 192-204
direct_rows(qc) ==
    [i \in 1..Len(qc.items) |-> csv_row(qc.name, qc.desc, <<>>, <<>>, qc.items[i])]

\* rows of one characteristic, lines 168-204: the direct measurements are
\* walked in the else branch only
qc_rows(qc) ==
    IF qc.subs # <<>>
    THEN concat([j \in 1..Len(qc.subs) |-> sub_rows(qc, qc.subs[j])])
    ELSE direct_rows(qc)

\* csv_data, lines 166-204
csv_data(tree) == concat([k \in 1..Len(tree) |-> qc_rows(tree[k])])

\* groupby(...).groups: the rows before row i that carry the same key
earlier_in_group(keys, i) == { j \in 1..(i - 1) : keys[j] = keys[i] }

\* the merge emulation, lines 208-227
blank_merged(rows) ==
    LET key_qc == [i \in 1..Len(rows) |-> rows[i].qc]
        key_sub == [i \in 1..Len(rows) |-> <<rows[i].qc, rows[i].sub>>]
        blank_qc(i) == rows[i].qc # <<>> /\ earlier_in_group(key_qc, i) # {}
        blank_sub(i) == rows[i].sub # <<>> /\ earlier_in_group(key_sub, i) # {}
    IN  [i \in 1..Len(rows) |->
            [rows[i] EXCEPT
                !.qc = IF blank_qc(i) THEN <<>> ELSE @,
                !.qc_desc = IF blank_qc(i) THEN <<>> ELSE @,
                !.sub = IF blank_sub(i) THEN <<>> ELSE @,
                !.sub_desc = IF blank_sub(i) THEN <<>> ELSE @]]

\* convert_yaml_to_csv, lines 149-232: <<the rows of df_cleaned>>, or None when
\* csv_data is empty (the frame then has no column '品質特性' and line 210
\* raises KeyError)
convert_yaml_to_csv(tree) ==
    IF csv_data(tree) = <<>> THEN None ELSE <<blank_merged(csv_data(tree))>>

\* ======================================================================
\* src/yaml_to_qualitymodel_csv.py
\* ======================================================================

\* lines 13-25 and 29-41: the rows of a measurement list, blank items skipped
fq_item_rows(qc_name, qc_desc, sub_name, sub_desc, ms) ==
    LET keep == SelectSeq(ms, LAMBDA m : strip(m.item) # <<>>)
    IN  [i \in 1..Len(keep) |-> csv_row(qc_name, qc_desc, sub_name, sub_desc, keep[i])]

\* lines 8-41: direct measurements first, then the sub-characteristics
fq_qc_rows(qc) ==
    fq_item_rows(qc.name, qc.desc, <<>>, <<>>, qc.items)
    \o concat([j \in 1..Len(qc.subs) |->
                  fq_item_rows(qc.name, qc.desc, qc.subs[j].name, qc.subs[j].desc,
                               qc.subs[j].items)])

\* lines 43-49: each label column is compared with its own previous value;
\* prev[col] is None at first, and a blanked cell leaves prev[col] alone
RECURSIVE fq_blank(_, _)
fq_blank(prev, rows) ==
    IF rows = <<>> THEN <<>>
    ELSE LET r == Head(rows)
             same(col) == <<r[col]>> = prev[col]
             out == [r EXCEPT !.qc = IF same("qc") THEN <<>> ELSE @,
                              !.qc_desc = IF same("qc_desc") THEN <<>> ELSE @,
                              !.sub = IF same("sub") THEN <<>> ELSE @,
                              !.sub_desc = IF same("sub_desc") THEN <<>> ELSE @]
             nxt == [col \in DOMAIN prev |->
                        IF same(col) THEN prev[col] ELSE <<r[col]>>]
         IN  <<out>> \o fq_blank(nxt, Tail(rows))

\* rows, lines 7-41
fq_data(tree) == concat([k \in 1..Len(tree) |-> fq_qc_rows(tree[k])])

\* flatten_quality_model, lines 4-53
flatten_quality_model(tree) ==
    fq_blank([col \in {"qc", "qc_desc", "sub", "sub_desc"} |-> None], fq_data(tree))

\* ======================================================================
\* The run of markdown_to_quality_excel
\* ======================================================================
IdleXl ==
    /\ phase = "idle"
    /\ nrows = 0
    /\ row = None
    /\ result = <<>>
    /\ current_quality_characteristic = None
    /\ current_sub_characteristic = None
    /\ yaml_data = <<>>
    /\ csv_rows = None
    /\ fq_rows = None
    /\ rebuilt = None
    /\ csv_again = None

NextMd ==
    \/ \E rawline \in InputLines : ReadLine(rawline) /\ UNCHANGED xlvars
    \/ EndOfInput /\ UNCHANGED xlvars

StartMd == InitMd /\ IdleXl

SpecMd == StartMd /\ [][NextMd]_vars

\* ======================================================================
\* The pipeline of excel_to_yaml_converter.py, lines 234-243: spreadsheet
\* rows -> tree -> rows, and the row loop run again on those rows
\* ======================================================================

\* the cells a spreadsheet row may hold, as read by pandas
QcCells == { <<>>, <<"A">>, <<"B", " ">> }
SubCells == { <<>>, <<"s">>, <<" ", "t">> }
ItemCells == { <<>>, <<"m", " ">> }

\* the description and example cells that go with a name or an item cell
desc_of(name) == IF name = <<>> THEN <<>> ELSE <<"d">> \o strip(name)
examples_of(item) ==
    IF item = <<>> THEN <<>> ELSE <<"x", "\r", "\n", " ", "\r", " ", "y">>

SheetRows ==
    { [qc |-> q, qc_desc |-> desc_of(q), sub |-> sb, sub_desc |-> desc_of(sb),
       item |-> m, ex |-> examples_of(m), vi |-> <<>>] :
         q \in QcCells, sb \in SubCells, m \in ItemCells }

builder_state ==
    [result |-> result,
     current_quality_characteristic |-> current_quality_characteristic,
     current_sub_characteristic |-> current_sub_characteristic]

InitPipe ==
    /\ phase = "rows"
    /\ nrows = 0
    /\ row = None
    /\ result = <<>>
    /\ current_quality_characteristic = None
    /\ current_sub_characteristic = None
    /\ yaml_data = <<>>
    /\ csv_rows = None
    /\ fq_rows = None
    /\ rebuilt = None
    /\ csv_again = None

\* df.iterrows() yields the next row, lines 70-115
ReadRow(r) ==
    /\ phase = "rows"
    /\ nrows < MaxRows
    /\ nrows' = nrows + 1
    /\ row' = <<r>>
    /\ LET b == row_loop_body(builder_state, r)
       IN  /\ result' = b.result
           /\ current_quality_characteristic' = b.current_quality_characteristic
           /\ current_sub_characteristic' = b.current_sub_characteristic
    /\ UNCHANGED <<phase, yaml_data, csv_rows, fq_rows, rebuilt, csv_again>>

\* the rows are exhausted: the tree is dumped and returned, lines 117-120
DumpYaml ==
    /\ phase = "rows"
    /\ phase' = "yaml"
    /\ yaml_data' = result
    /\ UNCHANGED <<nrows, row, result, current_quality_characteristic,
                   current_sub_characteristic, csv_rows, fq_rows, rebuilt, csv_again>>

\* convert_yaml_to_csv on the tree
ConvertYamlToCsv ==
    /\ phase = "yaml"
    /\ csv_rows' = convert_yaml_to_csv(yaml_data)
    /\ phase' = IF csv_rows' = None THEN "KeyError" ELSE "csv"
    /\ UNCHANGED <<nrows, row, result, current_quality_characteristic,
                   current_sub_characteristic, yaml_data, fq_rows, rebuilt, csv_again>>

\* flatten_quality_model on the tree
FlattenQualityModel ==
    /\ phase = "yaml"
    /\ fq_rows' = <<flatten_quality_model(yaml_data)>>
    /\ phase' = "fq"
    /\ UNCHANGED <<nrows, row, result, current_quality_characteristic,
                   current_sub_characteristic, yaml_data, csv_rows, rebuilt, csv_again>>

\* the row loop of convert_excel_to_yaml on the rows convert_yaml_to_csv returned
Rebuild ==
    /\ phase = "csv"
    /\ rebuilt' = <<convert_excel_to_yaml(csv_rows[1])>>
    /\ phase' = "rebuilt"
    /\ UNCHANGED <<nrows, row, result, current_quality_characteristic,
                   current_sub_characteristic, yaml_data, csv_rows, fq_rows, csv_again>>

\* convert_yaml_to_csv on the rebuilt tree
ConvertAgain ==
    /\ phase = "rebuilt"
    /\ csv_again' = convert_yaml_to_csv(rebuilt[1])
    /\ phase' = IF csv_again' = None THEN "KeyError" ELSE "again"
    /\ UNCHANGED <<nrows, row, result, current_quality_characteristic,
                   current_sub_characteristic, yaml_data, csv_rows, fq_rows, rebuilt>>

IdleMd == InitMd

NextPipe ==
    \/ \E r \in SheetRows : ReadRow(r) /\ UNCHANGED mdvars
    \/ DumpYaml /\ UNCHANGED mdvars
    \/ ConvertYamlToCsv /\ UNCHANGED mdvars
    \/ FlattenQualityModel /\ UNCHANGED mdvars
    \/ Rebuild /\ UNCHANGED mdvars
    \/ ConvertAgain /\ UNCHANGED mdvars

StartPipe == InitPipe /\ IdleMd

SpecPipe == StartPipe /\ [][NextPipe]_vars

\* ======================================================================
\* Properties of markdown_to_quality_excel (checked under SpecMd)
\* ======================================================================

\* the step is a turn of the for loop
LoopTurn == pc = "loop" /\ nread' = nread + 1

\* the line the turn runs on, after rstrip('\n')
TurnLine == rstrip_nl(raw'[1])

\* the turn reaches the heading / bullet / text branches (lines 59-67 skip it
\* otherwise)
TurnParses ==
    /\ LoopTurn
    /\ strip(TurnLine) # FRONTMATTER
    /\ ~in_yaml
    /\ strip(TurnLine) # <<>>

TurnIsHeading(level) ==
    TurnParses /\ header_match(TurnLine) /\ header_level(TurnLine) = level

TurnIsBullet == TurnParses /\ ~header_match(TurnLine) /\ list_match(TurnLine)

violations_of(cur) == IF cur = None THEN <<>> ELSE cur[1].violations

Contains(seq, x) == \E i \in 1..Len(seq) : seq[i] = x

\* C1: every record in items has a non-empty title; a '###' line with no
\* heading text never becomes a record.
C1_TitleNonEmpty == \A i \in 1..Len(items) : items[i].title3 # <<>>

\* C4 as stated: with an item open and the mode example, a bullet line with 8
\* leading spaces is appended to the examples as '-- ' plus the trimmed text.
C4_EightSpacesTwoDashes ==
    [][ (TurnIsBullet /\ current_item # None /\ current_state = "example"
         /\ span(TurnLine, {" "}) = 8)
        => current_item'[1].examples =
               Append(current_item[1].examples,
                      <<"-", "-", " ">> \o list_text(TurnLine)) ]_vars

\* C4 amended: with an item open and the mode example, a bullet line with 8
\* leading spaces is appended to the examples as '--- ' (three dashes, one
\* space) plus the trimmed text; the prefix '-- ' is that of a bullet with 4
\* leading spaces.
C4_EightSpacesThreeDashes ==
    [][ (TurnIsBullet /\ current_item # None /\ current_state = "example")
        => /\ span(TurnLine, {" "}) = 8
              => current_item'[1].examples =
                     Append(current_item[1].examples,
                            <<"-", "-", "-", " ">> \o list_text(TurnLine))
           /\ span(TurnLine, {" "}) = 4
              => current_item'[1].examples =
                     Append(current_item[1].examples,
                            <<"-", "-", " ">> \o list_text(TurnLine)) ]_vars

\* witness of C4: the 8-space bullet has just been stored under an example heading
C4_Witness ==
    /\ raw # None
    /\ span(raw[1], {" "}) = 8
    /\ list_match(rstrip_nl(raw[1]))
    /\ current_item # None
    /\ current_state = "example"
    /\ current_item[1].examples # <<>>
    /\ Last(current_item[1].examples) = <<"-", "-", "-", " ", "b">>

\* C5 as stated: no element of the violation list of an emitted item is '***'.
C5_NoSeparatorStored ==
    \A i \in 1..Len(items) : ~Contains(items[i].violations, SEPARATOR)

\* C5 amended: a line whose trimmed text is '***' is never stored in a
\* violation list (the turn that reads it leaves every violation list as it
\* was), and an element '***' enters a violation list only as the text of a
\* level 5 or level 6 heading, which is stored verbatim.
C5_SeparatorLineDropped ==
    [][ LoopTurn =>
        /\ strip(TurnLine) = SEPARATOR
           => /\ violations_of(current_item') = violations_of(current_item)
              /\ items' = items
        /\ (/\ current_item # None
            /\ current_item' # None
            /\ violations_of(current_item')
                   = Append(violations_of(current_item), SEPARATOR))
           => TurnIsHeading(5) \/ TurnIsHeading(6) ]_vars

\* witness of C5: a '***' line was read in violation mode and is not stored
C5_Witness ==
    /\ raw # None
    /\ strip(raw[1]) = SEPARATOR
    /\ current_item # None
    /\ current_state = "violation"
    /\ ~in_yaml
    /\ ~Contains(current_item[1].violations, SEPARATOR)

\* C7: col1 and col2 of an item are the joined, trimmed buffers at the turn
\* that reads its level 3 heading; no later turn changes them while the item
\* is open; the item enters items as it was; no record of items ever changes.
C7_Snapshot ==
    [][ /\ Len(items') >= Len(items)
        /\ \A i \in 1..Len(items) : items'[i] = items[i]
        /\ (current_item # None /\ Len(items') = Len(items) + 1)
           => Last(items') = current_item[1]
        /\ TurnIsHeading(3)
           => /\ current_item'[1].col1 = strip(join(l1_body_lines))
              /\ current_item'[1].col2 = strip(join(l2_body_lines))
        /\ (current_item # None /\ current_item' # None /\ ~TurnIsHeading(3))
           => /\ current_item'[1].col1 = current_item[1].col1
              /\ current_item'[1].col2 = current_item[1].col2 ]_vars

\* witness of C7: an item is open whose col2 is no longer what the level 2
\* buffer holds
C7_Witness ==
    /\ current_item # None
    /\ current_item[1].col2 # <<>>
    /\ current_item[1].col2 # strip(join(l2_body_lines))

\* C10: an item whose level 3 heading comes under a level 1 heading with no
\* '説明' block before it has an empty col2.  current_state is 'l1' exactly
\* when the last heading read was a level 1 heading, so no level 2 block has
\* been collected in that section.
C10_NoCarryOver ==
    [][ (TurnIsHeading(3) /\ current_state = "l1")
        => current_item'[1].col2 = <<>> ]_vars

\* ======================================================================
\* Properties of the converters (checked under SpecPipe)
\* ======================================================================

\* the step is a turn of the row loop
RowTurn == phase = "rows" /\ nrows' = nrows + 1

\* the measurements of a tree in the order of the walk the flattener is
\* specified to make: per characteristic, the measurements of each
\* sub-characteristic in order, then the direct measurements
RECURSIVE sub_items(_)
sub_items(subs) == IF subs = <<>> THEN <<>> ELSE Head(subs).items \o sub_items(Tail(subs))

RECURSIVE walk_items(_)
walk_items(tree) ==
    IF tree = <<>> THEN <<>>
    ELSE sub_items(Head(tree).subs) \o Head(tree).items \o walk_items(Tail(tree))

item_column(rows) == [i \in 1..Len(rows) |-> rows[i].item]

\* row i is the first row that carries its (characteristic, sub-characteristic)
\* pair, and the pair has a sub-characteristic name
FirstOfPair(rows, i) ==
    /\ rows[i].sub # <<>>
    /\ \A j \in 1..(i - 1) : <<rows[j].qc, rows[j].sub>> # <<rows[i].qc, rows[i].sub>>

KeepsFirstOfPair(full, out) ==
    /\ Len(out) = Len(full)
    /\ \A i \in 1..Len(full) :
          FirstOfPair(full, i)
          => out[i].sub = full[i].sub /\ out[i].sub_desc = full[i].sub_desc

\* every characteristic holds a measurement, and so does every
\* sub-characteristic: each node of the tree has a row to be rebuilt from
EveryNodeHasItems(tree) ==
    \A k \in 1..Len(tree) :
        /\ tree[k].items # <<>> \/ tree[k].subs # <<>>
        /\ \A j \in 1..Len(tree[k].subs) : tree[k].subs[j].items # <<>>

\* C2: the tree rebuilt from the rows of convert_yaml_to_csv is the tree that
\* was flattened: same characteristics, sub-characteristics and measurements,
\* in the same order, under the same parents, with the same text.  Stated for
\* the trees the row loop builds in which every node holds a measurement.
C2_RoundTrip ==
    (phase \in {"rebuilt", "again"} /\ EveryNodeHasItems(yaml_data))
    => rebuilt[1] = yaml_data

\* C3: convert_yaml_to_csv of the rebuilt tree returns the rows of the first
\* convert_yaml_to_csv, cell for cell.
C3_Idempotent ==
    /\ phase = "again" => csv_again = csv_rows
    /\ ~(phase = "KeyError" /\ rebuilt # None)

\* C6: in a characteristic that has a sub-characteristic, a turn of the row
\* loop never changes the direct measurements nor an earlier
\* sub-characteristic; if the turn opens no characteristic and its item cell is
\* not empty, its record is appended to the last sub-characteristic of the
\* last characteristic (the one the turn opened, if it opened one).
C6_AttachToLastSub ==
    [][ RowTurn =>
        /\ Len(result') >= Len(result)
        /\ \A k \in 1..Len(result) :
              result[k].subs # <<>>
              => /\ result'[k].items = result[k].items
                 /\ Len(result'[k].subs) >= Len(result[k].subs)
                 /\ \A j \in 1..(Len(result[k].subs) - 1) :
                       result'[k].subs[j] = result[k].subs[j]
        /\ (/\ result # <<>>
            /\ Len(result') = Len(result)
            /\ Last(result).subs # <<>>
            /\ clean_text(row'[1].item) # <<>>)
           => LET old == Last(result).subs
                  new == Last(result').subs
                  before == IF Len(new) = Len(old) THEN Last(old).items ELSE <<>>
              IN  /\ Len(new) \in {Len(old), Len(old) + 1}
                  /\ Len(Last(new).items) = Len(before) + 1
                  /\ Front(Last(new).items) = before
                  /\ Last(Last(new).items).item = clean_text(row'[1].item) ]_vars

\* witness of C6: a characteristic with direct measurements and a
\* sub-characteristic has just received, from a row with empty characteristic
\* and sub-characteristic cells, a second record in that sub-characteristic
C6_Witness ==
    /\ phase = "rows"
    /\ row # None
    /\ clean_text(row[1].qc) = <<>>
    /\ clean_text(row[1].sub) = <<>>
    /\ clean_text(row[1].item) # <<>>
    /\ result # <<>>
    /\ Last(result).items # <<>>
    /\ Last(result).subs # <<>>
    /\ Len(Last(Last(result).subs).items) = 2

\* C8: the flatteners emit one row per measurement of the tree, in the order
\* sub-characteristic measurements first, direct measurements after them.
C8_OneRowPerItem ==
    /\ phase = "csv"
       => item_column(csv_rows[1]) = item_column(walk_items(yaml_data))
    /\ phase = "fq"
       => item_column(fq_rows[1]) = item_column(walk_items(yaml_data))

\* C9: in the output of both flatteners the first row of every
\* (characteristic, sub-characteristic) pair with a sub-characteristic name
\* keeps the name and the description of the sub-characteristic.
C9_FirstOfPairKept ==
    /\ phase = "csv" => KeepsFirstOfPair(csv_data(yaml_data), csv_rows[1])
    /\ phase = "fq" => KeepsFirstOfPair(fq_data(yaml_data), fq_rows[1])

====
